---- MODULE Spec2Model ----
(***************************************************************************)
(* Model of wssrv.go: a websocket signaling relay.  One goroutine runs     *)
(* WsHandler per connection; all of them share the package-level map       *)
(* `connections` (channel id -> slice of connections) without any lock.    *)
(*                                                                         *)
(* Granularity.  Each access of a handler to the shared map is one step,   *)
(* except a map assignment, which is two (begin, end) so that an access    *)
(* overlapping a write is visible: the Go runtime marks a map as being     *)
(* written for the duration of an assignment and aborts the process        *)
(* ("concurrent map writes", "concurrent map read and map write") when      *)
(* another access meets the mark.  A call of websocket.JSON.Send is a step  *)
(* of its own, and so are the append of line 107, which may write into an   *)
(* array that other slices share, and the read of an element of such an    *)
(* array by the range loop of line 111.  What else a handler does between  *)
(* two of these steps is local to it and belongs to the step before.       *)
(*                                                                         *)
(* Slices.  A value of the map is a slice header (array, len, cap); the    *)
(* arrays live in a heap all handlers share.  append writes in place when  *)
(* len < cap and into a new array of twice the capacity otherwise, so two  *)
(* headers can show the same array.                                        *)
(*                                                                         *)
(* A panic raised in WsHandler unwinds that goroutine only: the deferred   *)
(* ws.Close() runs, and net/http's per-connection recover logs the panic.  *)
(* The runtime's fatal error on a concurrent map access is not a panic and *)
(* ends the process.                                                       *)
(***************************************************************************)
EXTENDS Integers, Sequences, FiniteSets, TLC

(* ------------------------------ bounds -------------------------------- *)
\* Number of client connections.
NConn == 2
\* Total number of things the clients do on their connections: send a
\* message (well-formed or not) or close the connection.
MaxEvents == 3
\* Number of channel ids of the id space the model uses (26^4 in the source).
NIds == 2
\* Number of draws before the generator gives up (20 in the source).
generateMaxTries == 2

(* ----------------------------- constants ------------------------------ *)
\* Some of the strings of generateChannelIdLength letters the inner loop of
\* generateChannelId can draw.
ids == << "WXYZ", "ABCD", "QQQQ", "AAAA" >>

Conns == 1 .. NConn
NoConn == 0

ChannelIds == { ids[i] : i \in 1 .. NIds }

\* A field a JSON message does not carry.
Absent == "<absent>"
Payloads == { "x" }

\* type Request
Request(cmd, channel, d) == [cmd |-> cmd, channel |-> channel, data |-> d]
ZeroRequest == Request("", "", "")

\* The messages the clients send: each field is a string or absent.
WireMessages ==
  { Request("", Absent, Absent),
    Request("requestChannelId", Absent, Absent),
    Request("bogus", Absent, Absent),
    Request(Absent, Absent, Absent) }
  \cup { Request("connectChannel", ch, Absent) : ch \in ChannelIds }
  \cup { Request("send", ch, d) : ch \in ChannelIds, d \in Payloads }

VARIABLES
  connections,  \* the shared map: channel id -> slice header
  arrays,       \* the heap: the arrays the slice headers point into
  writing,      \* the connection whose map assignment is in progress, or NoConn
  crashed,      \* the process was aborted by the runtime
  pc,           \* where each handler is
  data,         \* each handler's `var data Request`
  try,          \* generateChannelId's loop counter
  channelId,    \* the id generateChannelId returned
  old,          \* the slice of line 107's right-hand side: as read, then appended
  snap,         \* the slice header the last send of each handler ranges over
  idx,          \* the position of that range loop in snap
  seen,         \* history: the elements that range loop has read so far
  conn,         \* the loop variable conn while JSON.Send(conn, data) is pending
  outbox,       \* what was written to each connection, in order
  err,          \* why each handler left its loop ("" while it has not)
  current,      \* history: the channel each connection joined last ("" = none)
  joined,       \* history: the channels each connection has appended itself to
  nsend,        \* history: number of sends each handler has started
  nevents         \* history: number of client events so far, over all connections

vars ==
  << connections, arrays, writing, crashed, pc, data, try, channelId, old,
     snap, idx, seen, conn, outbox, err, current, joined, nsend, nevents >>

(* ------------------------------ helpers ------------------------------- *)
Range(s) == { s[i] : i \in 1 .. Len(s) }

\* A slice header: the array it points into, its length and its capacity.
Slice(a, n, k) == [arr |-> a, len |-> n, cap |-> k]

\* The address of an array: the connection whose handler allocated it and
\* the number of the allocation among that handler's.  NoArray is no address.
NoArray == << NoConn, 0 >>
NewArray(h, c) == << c, Cardinality({ a \in DOMAIN h : a[1] = c }) + 1 >>

\* The heap before anything is allocated.
EmptyHeap == [a \in { } |-> << >>]

\* The nil slice, and []*websocket.Conn{}: no array, no elements.
EmptySlice == Slice(NoArray, 0, 0)

\* The elements a slice header shows in heap h.
Elems(h, s) == [i \in 1 .. s.len |-> h[s.arr][i]]

\* The capacity of the array append allocates for a slice that is full.
NewCap(k) == IF k = 0 THEN 1 ELSE 2 * k

\* append(s, c) of Go, the heap after it: with room left the element is
\* written in place, into the array every slice on it shares; a full slice is
\* copied into a new array.
AppendHeap(h, s, c) ==
  IF s.len < s.cap
    THEN [h EXCEPT ![s.arr][s.len + 1] = c]
    ELSE [a \in DOMAIN h \cup { NewArray(h, c) } |->
            IF a = NewArray(h, c)
              THEN [i \in 1 .. NewCap(s.cap) |->
                      IF i <= s.len THEN h[s.arr][i]
                      ELSE IF i = s.len + 1 THEN c ELSE NoConn]
              ELSE h[a]]

\* append(s, c) of Go, the slice header it returns.
AppendSlice(h, s, c) ==
  IF s.len < s.cap
    THEN Slice(s.arr, s.len + 1, s.cap)
    ELSE Slice(NewArray(h, c), s.len + 1, NewCap(s.cap))

\* Mutant of Lookup: the key is not looked at, some channel's slice is
\* returned.
Lookup_anyChannel(m, k) ==
  IF DOMAIN m = { } THEN EmptySlice ELSE m[CHOOSE x \in DOMAIN m : TRUE]

\* connections[k] of Go: the zero value (a nil slice) for a missing key.
Lookup(m, k) == IF k \in DOMAIN m THEN m[k] ELSE EmptySlice

\* connections[k] = v of Go: inserts the key or replaces its value.
Store(m, k, v) == [x \in DOMAIN m \cup { k } |-> IF x = k THEN v ELSE m[x]]

\* json.Unmarshal into the handler's data: a field the message does not
\* carry keeps the value it had.
Unmarshal(prev, m) ==
  [f \in { "cmd", "channel", "data" } |-> IF m[f] = Absent THEN prev[f] ELSE m[f]]

\* A connection is open from accept until its handler's deferred ws.Close().
Open(c) == pc[c] \notin { "new", "done" }

\* What is written to a connection: the reply to requestChannelId, or a
\* forwarded request.  from and seq are history: the sending handler and the
\* number of its send.
CidResponse(cid) ==
  [kind |-> "cid", cid |-> cid, cmd |-> "", channel |-> "", data |-> "",
   from |-> NoConn, seq |-> 0]
Forwarded(r, c, n) ==
  [kind |-> "fwd", cid |-> "", cmd |-> r.cmd, channel |-> r.channel,
   data |-> r.data, from |-> c, seq |-> n]

\* Mutant of Send: the newest message overtakes the ones written before.
Send_overtaking(box, to, v) ==
  IF pc[to] \notin { "new", "done" } THEN [box EXCEPT ![to] = << v >> \o @] ELSE box

\* websocket.JSON.Send(to, v): v is written after everything written
\* before; on a closed connection it returns an error, which the handler
\* ignores.
Send(box, to, v) ==
  IF Open(to) THEN [box EXCEPT ![to] = Append(@, v)] ELSE box

\* Mutant of Dispatch: connectChannel is handled by the case of
\* requestChannelId, which replies.
Dispatch_joinReplies(cmd) ==
  CASE cmd = "" -> "recv"
    [] cmd = "requestChannelId" -> "gen"
    [] cmd = "connectChannel" -> "gen"
    [] cmd = "send" -> "sendRead"
    [] OTHER -> "panic"

\* The first step of the case the received command selects.
Dispatch(cmd) ==
  CASE cmd = "" -> "recv"
    [] cmd = "requestChannelId" -> "gen"
    [] cmd = "connectChannel" -> "joinRead"
    [] cmd = "send" -> "sendRead"
    [] OTHER -> "panic"

\* Mutant of Panicked: the cleanup is not deferred, a panic skips ws.Close().
Panicked_noClose(p, c) == [p EXCEPT ![c] = "ended"]

\* Mutant of Panicked: the panic is not confined to c's goroutine and takes
\* every handler down.
Panicked_all(p, c) == [x \in DOMAIN p |-> "done"]

\* The handler of c returns: its deferred function closes ws.
Returned(p, c) == [p EXCEPT ![c] = "done"]

\* panic in handler c (panic, log.Panicf): the handler leaves its loop and
\* its deferred function closes ws.  The panic unwinds c's goroutine only.
Panicked(p, c) == [p EXCEPT ![c] = "done"]

(* ------------------------------- Init --------------------------------- *)
Init ==
  /\ connections = << >>
  /\ arrays = EmptyHeap
  /\ writing = NoConn
  /\ crashed = FALSE
  /\ pc = [c \in Conns |-> "new"]
  /\ data = [c \in Conns |-> ZeroRequest]
  /\ try = [c \in Conns |-> 0]
  /\ channelId = [c \in Conns |-> ""]
  /\ old = [c \in Conns |-> EmptySlice]
  /\ snap = [c \in Conns |-> EmptySlice]
  /\ idx = [c \in Conns |-> 1]
  /\ seen = [c \in Conns |-> << >>]
  /\ conn = [c \in Conns |-> NoConn]
  /\ outbox = [c \in Conns |-> << >>]
  /\ err = [c \in Conns |-> ""]
  /\ current = [c \in Conns |-> ""]
  /\ joined = [c \in Conns |-> { }]
  /\ nsend = [c \in Conns |-> 0]
  /\ nevents = 0

(* ------------------------------ actions ------------------------------- *)
\* The runtime aborts the process: an access met a map assignment in
\* progress.
Fatal ==
  /\ crashed' = TRUE
  /\ UNCHANGED << connections, arrays, writing, pc, data, try, channelId, old,
                  snap, idx, seen, conn, outbox, err, current, joined, nsend,
                  nevents >>

\* A connection is accepted and WsHandler starts on it.
Accept(c) ==
  /\ ~crashed
  /\ pc[c] = "new"
  /\ pc' = [pc EXCEPT ![c] = "recv"]
  /\ UNCHANGED << connections, arrays, writing, crashed, data, try, channelId,
                  old, snap, idx, seen, conn, outbox, err, current, joined, nsend,
                  nevents >>

\* websocket.JSON.Receive returns a message; the switch on data.Command
\* selects the case.  The empty command is complete here.
Receive(c, m) ==
  /\ ~crashed
  /\ pc[c] = "recv"
  /\ nevents < MaxEvents
  /\ LET d == Unmarshal(data[c], m) IN
       /\ data' = [data EXCEPT ![c] = d]
       /\ pc' = IF Dispatch(d.cmd) = "panic"
                THEN Panicked(pc, c)
                ELSE [pc EXCEPT ![c] = Dispatch(d.cmd)]
       /\ err' = [err EXCEPT ![c] = IF Dispatch(d.cmd) = "panic" THEN "unknown" ELSE @]
  /\ try' = [try EXCEPT ![c] = 0]
  /\ nevents' = nevents + 1
  /\ UNCHANGED << connections, arrays, writing, crashed, channelId, old, snap,
                  idx, seen, conn, outbox, current, joined, nsend >>

\* Receive returns io.EOF: the client closed the connection.
ReceiveEOF(c) ==
  /\ ~crashed
  /\ pc[c] = "recv"
  /\ nevents < MaxEvents
  /\ pc' = Returned(pc, c)
  /\ err' = [err EXCEPT ![c] = "eof"]
  /\ nevents' = nevents + 1
  /\ UNCHANGED << connections, arrays, writing, crashed, data, try, channelId,
                  old, snap, idx, seen, conn, outbox, current, joined, nsend >>

\* Receive returns another error (malformed input): panic(err.Error()).
ReceiveError(c) ==
  /\ ~crashed
  /\ pc[c] = "recv"
  /\ nevents < MaxEvents
  /\ pc' = Panicked(pc, c)
  /\ err' = [err EXCEPT ![c] = "malformed"]
  /\ nevents' = nevents + 1
  /\ UNCHANGED << connections, arrays, writing, crashed, data, try, channelId,
                  old, snap, idx, seen, conn, outbox, current, joined, nsend >>

(* requestChannelId ------------------------------------------------------ *)
\* Mutant of Exists: the generator does not look the drawn id up.
Exists_unchecked(m, id) == FALSE

\* _, exists := connections[string(id)]
Exists(m, id) == id \in DOMAIN m

\* Mutant of MoreTries: the loop bound is off by one.
MoreTries_offByOne(t) == t <= generateMaxTries

\* try<generateMaxTries: the condition of generateChannelId's loop.
MoreTries(t) == t < generateMaxTries

\* One turn of generateChannelId's loop: the inner loop draws id, the map is
\* read.  A free id is returned; after generateMaxTries taken ids the
\* generator returns ("", true) and the handler calls log.Panicf.
GenTry(c, id) ==
  /\ ~crashed
  /\ pc[c] = "gen"
  /\ \/ writing # NoConn /\ Fatal
     \/ /\ writing = NoConn
        /\ ~Exists(connections, id)
        /\ channelId' = [channelId EXCEPT ![c] = id]
        /\ try' = [try EXCEPT ![c] = 0]
        /\ pc' = [pc EXCEPT ![c] = "register"]
        /\ UNCHANGED << connections, arrays, writing, crashed, data, old,
                        snap, idx, seen, conn, outbox, err, current, joined, nsend,
                        nevents >>
     \/ /\ writing = NoConn
        /\ Exists(connections, id)
        /\ MoreTries(try[c] + 1)
        /\ try' = [try EXCEPT ![c] = @ + 1]
        /\ UNCHANGED << connections, arrays, writing, crashed, pc, data,
                        channelId, old, snap, idx, seen, conn, outbox, err, current,
                        joined, nsend, nevents >>
     \/ /\ writing = NoConn
        /\ Exists(connections, id)
        /\ ~MoreTries(try[c] + 1)
        /\ try' = [try EXCEPT ![c] = 0]
        /\ pc' = Panicked(pc, c)
        /\ err' = [err EXCEPT ![c] = "exhausted"]
        /\ UNCHANGED << connections, arrays, writing, crashed, data,
                        channelId, old, snap, idx, seen, conn, outbox, current,
                        joined, nsend, nevents >>

\* connections[channelId] = []*websocket.Conn{}: the assignment begins.
RegisterBegin(c) ==
  /\ ~crashed
  /\ pc[c] = "register"
  /\ \/ writing # NoConn /\ Fatal
     \/ /\ writing = NoConn
        /\ writing' = c
        /\ pc' = [pc EXCEPT ![c] = "registering"]
        /\ UNCHANGED << connections, arrays, crashed, data, try, channelId,
                        old, snap, idx, seen, conn, outbox, err, current, joined,
                        nsend, nevents >>

\* Mutant of Registered: the generated id is not stored.
Registered_forgotten(m, id) == m

\* The value the registration stores under the new id.
Registered(m, id) == Store(m, id, EmptySlice)

\* The assignment ends: the id is a key of the map, with an empty slice.
RegisterEnd(c) ==
  /\ ~crashed
  /\ pc[c] = "registering"
  /\ connections' = Registered(connections, channelId[c])
  /\ writing' = NoConn
  /\ pc' = [pc EXCEPT ![c] = "reply"]
  /\ UNCHANGED << arrays, crashed, data, try, channelId, old, snap, idx, seen, conn,
                  outbox, err, current, joined, nsend, nevents >>

\* websocket.JSON.Send(ws, response): the reply {cid: channelId} is written
\* to the requester, whatever the other handlers did since the registration.
Reply(c) ==
  /\ ~crashed
  /\ pc[c] = "reply"
  /\ outbox' = Send(outbox, c, CidResponse(channelId[c]))
  /\ channelId' = [channelId EXCEPT ![c] = ""]
  /\ pc' = [pc EXCEPT ![c] = "recv"]
  /\ UNCHANGED << connections, arrays, writing, crashed, data, try, old, snap,
                  idx, seen, conn, err, current, joined, nsend, nevents >>

(* connectChannel -------------------------------------------------------- *)
\* The right-hand side of line 107 reads connections[data.Channel].
JoinRead(c) ==
  /\ ~crashed
  /\ pc[c] = "joinRead"
  /\ \/ writing # NoConn /\ Fatal
     \/ /\ writing = NoConn
        /\ old' = [old EXCEPT ![c] = Lookup(connections, data[c].channel)]
        /\ pc' = [pc EXCEPT ![c] = "joinAppend"]
        /\ UNCHANGED << connections, arrays, writing, crashed, data, try,
                        channelId, snap, idx, seen, conn, outbox, err, current,
                        joined, nsend, nevents >>

\* append(connections[data.Channel], ws), on the slice that was read: ws is
\* written behind its last element, in place when the array has room.
JoinAppend(c) ==
  /\ ~crashed
  /\ pc[c] = "joinAppend"
  /\ arrays' = AppendHeap(arrays, old[c], c)
  /\ old' = [old EXCEPT ![c] = AppendSlice(arrays, old[c], c)]
  /\ joined' = [joined EXCEPT ![c] = @ \cup { data[c].channel }]
  /\ pc' = [pc EXCEPT ![c] = "joinWrite"]
  /\ UNCHANGED << connections, writing, crashed, data, try, channelId, snap,
                  idx, seen, conn, outbox, err, current, nsend, nevents >>

\* The assignment of line 107 begins.
JoinBegin(c) ==
  /\ ~crashed
  /\ pc[c] = "joinWrite"
  /\ \/ writing # NoConn /\ Fatal
     \/ /\ writing = NoConn
        /\ writing' = c
        /\ pc' = [pc EXCEPT ![c] = "joinWriting"]
        /\ UNCHANGED << connections, arrays, crashed, data, try, channelId,
                        old, snap, idx, seen, conn, outbox, err, current, joined,
                        nsend, nevents >>

\* connections[data.Channel] = the slice header append returned.
Joined(m, ch, slice) == Store(m, ch, slice)

\* The assignment ends: the header is stored.  What the map then shows under
\* the key is what the header's array holds by now.
JoinEnd(c) ==
  /\ ~crashed
  /\ pc[c] = "joinWriting"
  /\ connections' = Joined(connections, data[c].channel, old[c])
  /\ writing' = NoConn
  /\ old' = [old EXCEPT ![c] = EmptySlice]
  /\ current' = [current EXCEPT ![c] = data[c].channel]
  /\ pc' = [pc EXCEPT ![c] = "recv"]
  /\ UNCHANGED << arrays, crashed, data, try, channelId, snap, idx, seen, conn,
                  outbox, err, joined, nsend, nevents >>

(* send ------------------------------------------------------------------ *)
\* range connections[data.Channel]: the slice header is read once.
SendRead(c) ==
  /\ ~crashed
  /\ pc[c] = "sendRead"
  /\ \/ writing # NoConn /\ Fatal
     \/ /\ writing = NoConn
        /\ LET s == Lookup(connections, data[c].channel) IN
             /\ snap' = [snap EXCEPT ![c] = s]
             /\ pc' = [pc EXCEPT ![c] = IF s.len = 0 THEN "recv" ELSE "sendLoop"]
        /\ idx' = [idx EXCEPT ![c] = 1]
        /\ seen' = [seen EXCEPT ![c] = << >>]
        /\ nsend' = [nsend EXCEPT ![c] = @ + 1]
        /\ UNCHANGED << connections, arrays, writing, crashed, data, try,
                        channelId, old, conn, outbox, err, current, joined,
                        nevents >>

\* The element the range loop of c is at, read from the array now.
Element(c) == arrays[snap[c].arr][idx[c]]

\* Mutant of LoopNext: the loop is left at the first Send that fails.
LoopNext_abort(c) ==
  IF idx[c] = snap[c].len \/ (pc[c] = "sendWrite" /\ pc[conn[c]] = "done")
    THEN "recv" ELSE "sendLoop"

\* Where the handler is after the loop body ran on one element: the value
\* JSON.Send returns is not looked at, the range goes on to the next
\* element, and after the last one the handler receives again.
LoopNext(c) == IF idx[c] = snap[c].len THEN "recv" ELSE "sendLoop"

\* for _,conn := range ...: the next element is read into conn.  With
\* conn == ws the body does nothing and the turn is over; otherwise the
\* handler goes on to JSON.Send(conn, data).
SendNext(c) ==
  /\ ~crashed
  /\ pc[c] = "sendLoop"
  /\ seen' = [seen EXCEPT ![c] = Append(@, Element(c))]
  /\ \/ /\ Element(c) = c
        /\ idx' = [idx EXCEPT ![c] = @ + 1]
        /\ pc' = [pc EXCEPT ![c] = LoopNext(c)]
        /\ conn' = conn
     \/ /\ Element(c) # c
        /\ conn' = [conn EXCEPT ![c] = Element(c)]
        /\ pc' = [pc EXCEPT ![c] = "sendWrite"]
        /\ idx' = idx
  /\ UNCHANGED << connections, arrays, writing, crashed, data, try, channelId,
                  old, snap, outbox, err, current, joined, nsend, nevents >>

\* websocket.JSON.Send(conn, data), on the connection read before, whatever
\* the array holds by now and whether or not conn is still open.
SendStep(c) ==
  /\ ~crashed
  /\ pc[c] = "sendWrite"
  /\ outbox' = Send(outbox, conn[c], Forwarded(data[c], c, nsend[c]))
  /\ conn' = [conn EXCEPT ![c] = NoConn]
  /\ idx' = [idx EXCEPT ![c] = @ + 1]
  /\ pc' = [pc EXCEPT ![c] = LoopNext(c)]
  /\ UNCHANGED << connections, arrays, writing, crashed, data, try, channelId,
                  old, snap, seen, err, current, joined, nsend, nevents >>

\* The steps of the handlers that are running.
Handle ==
  \/ \E c \in Conns, m \in WireMessages : Receive(c, m)
  \/ \E c \in Conns : ReceiveEOF(c)
  \/ \E c \in Conns : ReceiveError(c)
  \/ \E c \in Conns, id \in ChannelIds : GenTry(c, id)
  \/ \E c \in Conns : RegisterBegin(c)
  \/ \E c \in Conns : RegisterEnd(c)
  \/ \E c \in Conns : Reply(c)
  \/ \E c \in Conns : JoinRead(c)
  \/ \E c \in Conns : JoinAppend(c)
  \/ \E c \in Conns : JoinBegin(c)
  \/ \E c \in Conns : JoinEnd(c)
  \/ \E c \in Conns : SendRead(c)
  \/ \E c \in Conns : SendNext(c)
  \/ \E c \in Conns : SendStep(c)

Next ==
  \/ \E c \in Conns : Accept(c)
  \/ Handle

Spec == Init /\ [][Next]_vars

\* The state after every connection was accepted and connection 1 sent
\* connectChannel for the first channel id three times: the appends allocated
\* arrays of capacity 1, 2 and 4, and the slice of the channel is the first
\* three elements of the last one.  The client events are counted from there.
InitJoined ==
  LET s1 == AppendSlice(EmptyHeap, EmptySlice, 1)
      h1 == AppendHeap(EmptyHeap, EmptySlice, 1)
      s2 == AppendSlice(h1, s1, 1)
      h2 == AppendHeap(h1, s1, 1)
      s3 == AppendSlice(h2, s2, 1)
      h3 == AppendHeap(h2, s2, 1)
  IN
  /\ connections = [k \in { ids[1] } |-> s3]
  /\ arrays = h3
  /\ writing = NoConn
  /\ crashed = FALSE
  /\ pc = [c \in Conns |-> "recv"]
  /\ data = [c \in Conns |->
               IF c = 1 THEN Request("connectChannel", ids[1], "") ELSE ZeroRequest]
  /\ try = [c \in Conns |-> 0]
  /\ channelId = [c \in Conns |-> ""]
  /\ old = [c \in Conns |-> EmptySlice]
  /\ snap = [c \in Conns |-> EmptySlice]
  /\ idx = [c \in Conns |-> 1]
  /\ seen = [c \in Conns |-> << >>]
  /\ conn = [c \in Conns |-> NoConn]
  /\ outbox = [c \in Conns |-> << >>]
  /\ err = [c \in Conns |-> ""]
  /\ current = [c \in Conns |-> IF c = 1 THEN ids[1] ELSE ""]
  /\ joined = [c \in Conns |-> IF c = 1 THEN { ids[1] } ELSE { }]
  /\ nsend = [c \in Conns |-> 0]
  /\ nevents = 0

SpecJoined == InitJoined /\ [][Handle]_vars

(* ============================== claims ================================= *)
\* The connections the map shows under a code: the elements of its slice,
\* as the slice's array holds them now.
Members(code) == Range(Elems(arrays, Lookup(connections, code)))

\* The channel ids a connection was sent in reply to requestChannelId, as
\* positions of its outbox.
CidPositions(c) == { i \in 1 .. Len(outbox[c]) : outbox[c][i].kind = "cid" }
Cids(c) == { outbox[c][i].cid : i \in CidPositions(c) }

\* Number of times the n-th send of handler s was written to connection m.
Deliveries(m, s, n) ==
  Cardinality({ i \in 1 .. Len(outbox[m]) :
                  /\ outbox[m][i].kind = "fwd"
                  /\ outbox[m][i].from = s
                  /\ outbox[m][i].seq = n })

\* C1: a code the generator returns is, at the moment it is returned, not a
\* key of the registry; and the codes one connection receives in reply to
\* its requestChannelId commands are pairwise distinct.
C1_FreshCode ==
  [][ /\ \A c \in Conns :
           (pc[c] = "gen" /\ pc'[c] = "register")
             => channelId'[c] \notin DOMAIN connections
      /\ \A c \in Conns :
           \A i, j \in { k \in 1 .. Len(outbox'[c]) : outbox'[c][k].kind = "cid" } :
             i # j => outbox'[c][i].cid # outbox'[c][j].cid ]_vars

\* One connection has received two codes.
C1_Witness == \E c \in Conns : Cardinality(CidPositions(c)) >= 2

\* C2: two connections are never handed the same code.
C2_NoSharedCode ==
  \A c1, c2 \in Conns : c1 # c2 => Cids(c1) \cap Cids(c2) = { }

\* C3: when connectChannel(code) of connection c completes, code is a key of
\* the registry, its member slice contains c, and the channel c joined last
\* is code.
C3_JoinPost ==
  [][ \A c \in Conns :
        (pc[c] = "joinWriting" /\ pc'[c] = "recv")
          => /\ data[c].channel \in DOMAIN connections'
             /\ c \in Range(Elems(arrays', connections'[data[c].channel]))
             /\ current'[c] = data[c].channel ]_vars

\* C4: once the handler of c has ended, no member slice contains c.
C4_NoMemberAfterEnd ==
  \A c \in Conns :
    pc[c] = "done" => \A code \in DOMAIN connections : c \notin Members(code)

\* C5: a completed send of s was written exactly once to every member the
\* range loop read other than s (to one that is still open; at most
\* once to one that has closed since), and never to s or to a non-member.
C5_ExactlyOnce ==
  \A s \in Conns :
    (nsend[s] > 0 /\ pc[s] \notin { "sendLoop", "sendWrite" })
      => \A m \in Conns :
           LET n == Deliveries(m, s, nsend[s]) IN
             IF m = s \/ m \notin Range(seen[s]) THEN n = 0
             ELSE n <= 1 /\ (Open(m) => n = 1)

\* C6: a connection is in the member slice of at most one channel, and every
\* member of a channel joined that channel last.
C6_AtMostOneChannel ==
  \A c \in Conns :
    /\ Cardinality({ code \in DOMAIN connections : c \in Members(code) }) <= 1
    /\ \A code \in DOMAIN connections : c \in Members(code) => current[c] = code

\* C7: the step in which a handler fails with a protocol error (unknown
\* command, malformed input) and is terminated changes no other handler's
\* position, data or outbox, nor the registry, and the process keeps running.
C7_ErrorIsolated ==
  [][ \A c \in Conns :
        (err[c] = "" /\ err'[c] \in { "unknown", "malformed" })
          => /\ \A o \in Conns \ { c } :
                  pc'[o] = pc[o] /\ data'[o] = data[o] /\ outbox'[o] = outbox[o]
             /\ connections' = connections
             /\ ~crashed' ]_vars

\* Handler c has ended on a protocol error; o, which shares a channel with
\* c, has since completed a send (it ranged over c and wrote nothing to it,
\* c being closed) and is receiving again.
C7_Witness ==
  \E c, o \in Conns :
    /\ c # o
    /\ err[c] \in { "unknown", "malformed" } /\ pc[c] = "done"
    /\ ~crashed
    /\ pc[o] = "recv" /\ nsend[o] > 0
    /\ c \in Range(seen[o])
    /\ Deliveries(c, o, nsend[o]) = 0

\* C8: a handler whose generator was exhausted stays active and has been
\* sent a failure response.
C8_ExhaustionSurvived ==
  \A c \in Conns :
    err[c] = "exhausted"
      => /\ pc[c] # "done"
         /\ \E i \in 1 .. Len(outbox[c]) : outbox[c][i].kind = "error"

\* C9: in every connection's outbox, the messages forwarded from one sender
\* to one channel appear in the order the sender sent them.
C9_SenderOrder ==
  \A r \in Conns :
    \A i, j \in 1 .. Len(outbox[r]) :
      (/\ i < j
       /\ outbox[r][i].kind = "fwd" /\ outbox[r][j].kind = "fwd"
       /\ outbox[r][i].from = outbox[r][j].from
       /\ outbox[r][i].channel = outbox[r][j].channel)
        => outbox[r][i].seq <= outbox[r][j].seq

\* A recipient has received two different sends of one sender to one channel.
C9_Witness ==
  \E r \in Conns :
    \E i, j \in 1 .. Len(outbox[r]) :
      /\ outbox[r][i].kind = "fwd" /\ outbox[r][j].kind = "fwd"
      /\ outbox[r][i].from = outbox[r][j].from
      /\ outbox[r][i].channel = outbox[r][j].channel
      /\ outbox[r][i].seq < outbox[r][j].seq

\* C10: no channel stays registered once a member's handler has ended and
\* none of its members has a running handler.
C10_EmptyChannelDeleted ==
  \A code \in DOMAIN connections :
    (\E m \in Members(code) : pc[m] = "done")
      => \E m \in Members(code) : pc[m] # "done"

\* What a message means when an absent field is taken as empty.
Decoded(m) ==
  [f \in { "cmd", "channel", "data" } |-> IF m[f] = Absent THEN "" ELSE m[f]]

\* C11: a received message is dispatched on its own command, an absent
\* command being the empty one, and the request a send forwards (the
\* handler's data, from which Forwarded takes cmd, channel and data) is the
\* message just received, absent fields empty.
C11_Stateless ==
  [][ \A c \in Conns : \A m \in WireMessages :
        Receive(c, m)
          => /\ IF Dispatch(Decoded(m).cmd) = "panic"
                  THEN pc'[c] = "done"
                  ELSE pc'[c] = Dispatch(Decoded(m).cmd)
             /\ Decoded(m).cmd = "send" => data'[c] = Decoded(m) ]_vars

\* C12: no step of the handling of a connectChannel writes to any
\* connection, and neither does the step in which a client event arrives
\* while a handler is receiving that is left with an empty or connectChannel
\* command; a handler left with the empty command is receiving again.
C12_NoResponse ==
  [][ /\ \A c \in Conns :
           (/\ data[c].cmd = "connectChannel"
            /\ pc[c] \notin { "new", "recv", "done" }
            /\ (pc'[c] # pc[c] \/ idx'[c] # idx[c]))
             => outbox' = outbox
      /\ \A c \in Conns :
           (/\ nevents' # nevents
            /\ pc[c] = "recv" /\ err'[c] = ""
            /\ data'[c].cmd \in { "", "connectChannel" })
             => /\ outbox' = outbox
                /\ data'[c].cmd = "" => pc'[c] = "recv" ]_vars

\* Two connections have joined one channel, one of them has then been sent
\* an empty command, and nothing was written to any connection.
C12_Witness ==
  \E c, o \in Conns :
    /\ c # o
    /\ \E code \in DOMAIN connections : { c, o } \subseteq Members(code)
    /\ pc[c] = "recv" /\ pc[o] = "recv"
    /\ data[c].cmd = "connectChannel" /\ data[o].cmd = ""
    /\ \A x \in Conns : outbox[x] = << >>

\* C13: the step that ends the registration of a requestChannelId leaves the
\* generated code a key of the registry with an empty member slice, appends
\* no connection to any slice and writes to no connection; the step that
\* replies appends {cid: code} to the requester's outbox, writes to no other
\* connection and leaves the registry as it is; and a reply is only ever
\* written to a connection by that step of its own handler, once for each
\* request.
C13_RequestPost ==
  [][ /\ \A c \in Conns :
           (pc[c] = "registering" /\ pc'[c] = "reply")
             => /\ channelId[c] \in DOMAIN connections'
                /\ connections'[channelId[c]].len = 0
                /\ arrays' = arrays
                /\ outbox' = outbox
      /\ \A c \in Conns :
           (pc[c] = "reply" /\ pc'[c] = "recv")
             => /\ outbox'[c] = Append(outbox[c], CidResponse(channelId[c]))
                /\ \A o \in Conns \ { c } : outbox'[o] = outbox[o]
                /\ channelId[c] \in DOMAIN connections
                /\ connections' = connections /\ arrays' = arrays
      /\ \A c \in Conns :
           (/\ outbox'[c] # outbox[c]
            /\ outbox'[c] # << >>
            /\ outbox'[c][Len(outbox'[c])].kind = "cid")
             => pc[c] = "reply" /\ pc'[c] = "recv" ]_vars

\* A connection has been sent a code which another connection has joined
\* since it was registered.
C13_Witness ==
  \E c, o \in Conns : \E code \in Cids(c) :
    /\ c # o
    /\ Len(outbox[c]) = 1 /\ nevents = 2
    /\ Members(code) = { o }
    /\ current[o] = code

\* C14: no access to the map begins while another handler's assignment to it
\* is in progress (the runtime aborts the process when one does).
C14_MutualExclusion == ~crashed

\* C15: two connections that have both completed connectChannel for a code
\* that no requestChannelId has generated are both in its member slice.
C15_JoinsNotLost ==
  \A c1, c2 \in Conns :
    (/\ c1 # c2
     /\ current[c1] # "" /\ current[c1] = current[c2]
     /\ \A x \in Conns : current[c1] \notin Cids(x) /\ channelId[x] # current[c1])
      => { c1, c2 } \subseteq Members(current[c1])

\* C16: the step that registers the code of a requestChannelId removes no
\* connection from the member slice of that code.
C16_RegisterKeepsMembers ==
  [][ \A r \in Conns :
        (pc[r] = "registering" /\ pc'[r] = "reply")
          => \A c \in Members(channelId[r]) :
               c \in Range(Elems(arrays', Lookup(connections', channelId[r]))) ]_vars

\* C17: the generator makes at most generateMaxTries draws; it returns a
\* drawn id only if the id is not registered when it is looked up, and
\* reports exhaustion only on the generateMaxTries-th draw, every draw
\* having been of a registered id.
C17_Generator ==
  [][ /\ \A c \in Conns : pc'[c] = "gen" => try'[c] < generateMaxTries
      /\ \A c \in Conns : \A id \in ChannelIds :
           (GenTry(c, id) /\ ~crashed')
             => /\ pc'[c] = "register"
                  <=> id \notin DOMAIN connections
                /\ pc'[c] = "register" => channelId'[c] = id
                /\ id \in DOMAIN connections
                     => IF try[c] + 1 = generateMaxTries
                          THEN err'[c] = "exhausted"
                          ELSE pc'[c] = "gen" /\ try'[c] = try[c] + 1
                /\ err'[c] = "exhausted"
                     => id \in DOMAIN connections /\ try[c] + 1 = generateMaxTries ]_vars

\* One handler's generator was exhausted; another's returned a free id, which
\* was registered and sent to the requester.
C17_Witness ==
  /\ \E c \in Conns : err[c] = "exhausted"
  /\ \E c \in Conns : Cids(c) # { }

\* C18: a handler that has left its loop, for whatever reason, has closed
\* its connection, and a handler that has ended takes no further step.
C18_Released ==
  [][ /\ \A c \in Conns : err'[c] # "" => pc'[c] = "done"
      /\ \A c \in Conns :
           pc[c] = "done"
             => /\ pc'[c] = "done"
                /\ data'[c] = data[c]
                /\ err'[c] = err[c] ]_vars

\* One handler has ended on an unknown command and another on exhaustion of
\* the generator; both connections are closed.
C18_Witness ==
  \E c1, c2 \in Conns :
    /\ err[c1] = "unknown" /\ pc[c1] = "done"
    /\ err[c2] = "exhausted" /\ pc[c2] = "done"

\* C19: a send that has completed has read every element of the slice it
\* ranged over, and has been written to every connection it read other than
\* the sender that is open, whatever Sends failed before; a step of the loop
\* leaves the sender in the loop or receiving, without error.
C19_BroadcastContinues ==
  [][ /\ \A s \in Conns :
           (nsend'[s] > 0 /\ pc'[s] \notin { "sendLoop", "sendWrite" })
             => /\ idx'[s] = snap'[s].len + 1
                /\ Len(seen'[s]) = snap'[s].len
                /\ \A m \in Range(seen'[s]) \ { s } :
                     pc'[m] \notin { "new", "done" }
                       => \E i \in 1 .. Len(outbox'[m]) :
                            /\ outbox'[m][i].kind = "fwd"
                            /\ outbox'[m][i].from = s
                            /\ outbox'[m][i].seq = nsend'[s]
      /\ \A s \in Conns :
           (pc[s] \in { "sendLoop", "sendWrite" } /\ pc'[s] # pc[s])
             => pc'[s] \in { "sendLoop", "sendWrite", "recv" } /\ err'[s] = "" ]_vars

\* A sender has completed a send over a slice in which a closed connection,
\* to which nothing was written, comes before another element, and is
\* receiving again.
C19_Witness ==
  \E s \in Conns :
    /\ nsend[s] > 0 /\ pc[s] = "recv" /\ err[s] = ""
    /\ Len(seen[s]) >= 2
    /\ \E i \in 1 .. Len(seen[s]) - 1 :
         /\ pc[seen[s][i]] = "done"
         /\ Deliveries(seen[s][i], s, nsend[s]) = 0

\* C20: a forwarded message is only ever written to a connection that has
\* appended itself to the slice of the channel the message names, and never
\* to its sender; a send
\* that names an unregistered code is complete with the lookup, leaving the
\* registry and every outbox as they were.
C20_Isolation ==
  [][ /\ \A r \in Conns : \A i \in 1 .. Len(outbox'[r]) :
           outbox'[r][i].kind = "fwd"
             => outbox'[r][i].channel \in joined'[r] /\ outbox'[r][i].from # r
      /\ \A c \in Conns :
           (pc[c] = "sendRead" /\ pc'[c] # pc[c] /\ data[c].channel \notin DOMAIN connections)
             => /\ pc'[c] = "recv"
                /\ connections' = connections
                /\ outbox' = outbox ]_vars

\* One channel has a member, a send to another, unregistered code has
\* completed, and nothing was written to any connection.
C20_Witness ==
  \E s, m \in Conns :
    /\ s # m
    /\ \E code \in DOMAIN connections : m \in Members(code)
    /\ nsend[s] > 0 /\ pc[s] = "recv"
    /\ data[s].cmd = "send" /\ data[s].channel \notin DOMAIN connections
    /\ \A x \in Conns : outbox[x] = << >>
====
